---- MODULE Spec2Model ----
(***************************************************************************)
(* HelioSat: the on-disk result cache (heliosat/caching.py) and the        *)
(* spacecraft data-retrieval pipeline (heliosat/spacecraft.py).            *)
(*                                                                         *)
(* Conventions of the model                                                *)
(*   - a datetime is an integer count of time units; a calendar day is     *)
(*     DayLen units long and day 0 starts at time 0 (1 January 2020);      *)
(*   - a string that the code splits or tests by suffix (a URL, a path)    *)
(*     is a sequence of tokens in which "/" and "." are tokens of their    *)
(*     own, so split, join, endswith and replace are computed, not assumed;*)
(*   - a call that raises is a result record whose exc field names the     *)
(*     exception ("None" when the call returns).                           *)
(***************************************************************************)
EXTENDS Integers, Sequences, FiniteSets, TLC

VARIABLES
    inp,        \* arguments of the pure function under check (SpecUrls, SpecRead, ...)
    out,        \* its result, "none" before the call
    spice,      \* heliosat._spice["spacecraft"]: registry loaded or not
    sc,         \* the constructed Spacecraft instance (self.name), "none" before
    kernels,    \* kernel groups loaded by spice_load
    regCols,    \* the column selector lists held inside the loaded registry
    disk,       \* files under heliosat._paths["data"]
    cacheDir,   \* whether heliosat._paths["cache"] exists
    fs,         \* files under heliosat._paths["cache"]: name -> bytes
    shadow,     \* the key -> object map the cache is specified to be
    req,        \* the caller's arguments of the pipeline calls
    last        \* the last call and its outcome

vars == <<inp, out, spice, sc, kernels, regCols, disk, cacheDir, fs, shadow, req, last>>

pureVars == <<spice, sc, kernels, regCols, disk, cacheDir, fs, shadow, req, last>>

-----------------------------------------------------------------------------
(* Bounds *)

DayLen == 3         \* time units per calendar day
MaxTime == 8        \* datetimes range over 0..MaxTime
MaxVersions == 2    \* longest version list tried

Times == 0..MaxTime

\* datetime.date(): the calendar day a datetime falls on
DateOf(t) == t \div DayLen

Range(f) == {f[i] : i \in DOMAIN f}

Max(a, b) == IF a > b THEN a ELSE b

-----------------------------------------------------------------------------
(* urls_build *)

\* "{:02d}".format(n) and "{:03d}".format(n)
Fmt02(n) == IF n < 10 THEN "0" \o ToString(n) ELSE ToString(n)

Fmt03(n) == IF n < 10 THEN "00" \o ToString(n)
            ELSE IF n < 100 THEN "0" \o ToString(n) ELSE ToString(n)

\* str.replace(old, new) on a token string
Replace(url, old, new) == [i \in DOMAIN url |-> IF url[i] = old THEN new ELSE url[i]]

\* the date placeholders of one day (the model's days all lie in January 2020)
DateSubst(fmt, day) ==
    LET dom == DateOf(day) + 1
        u1 == Replace(fmt, "{YYYY}", "2020")
        u2 == Replace(u1, "{YY}", "20")
        u3 == Replace(u2, "{MM}", "01")
        u4 == Replace(u3, "{MONTH}", "JAN")
        u5 == Replace(u4, "{DD}", Fmt02(dom))
        u6 == Replace(u5, "{DOY}", Fmt03(dom))
        u7 == Replace(u6, "{DOYM1}", "001")
    IN  Replace(u7, "{DOYM2}", "031")

\* "{{V{0}}}".format(i), i counted from 0
VToken(i) == "{V" \o ToString(i) \o "}"

RECURSIVE IdSubst(_, _, _)
\* for i in range(len(identifiers)): url = url.replace("{Vi}", identifiers[i])
IdSubst(url, ids, i) ==
    IF i > Len(ids) THEN url
    ELSE IdSubst(Replace(url, VToken(i - 1), ids[i]), ids, i + 1)

VersionMatchesLate(version, day) ==
    version.version_start <= day /\ day <= version.version_end

\* strptime(version["version_start"]) <= day < strptime(version["version_end"])
VersionMatches(version, day) ==
    version.version_start <= day /\ day < version.version_end

\* the first version of the list that matches, 0 when none does
FirstVersion(versions, day) ==
    LET hits == {k \in DOMAIN versions : VersionMatches(versions[k], day)}
    IN  IF hits = {} THEN 0 ELSE CHOOSE k \in hits : \A j \in hits : k <= j

\* [range_start + timedelta(days=i) for i in range((range_end - range_start).days + 1)]
UrlDays(range_start, range_end) ==
    LET n == Max(0, ((range_end - range_start) \div DayLen) + 1)
    IN  [i \in 1..n |-> range_start + (i - 1) * DayLen]

\* `if versions:` a version list that is None or empty is not used
VersionsUsed(versions) == versions.given /\ Len(versions.list) > 0

\* one iteration of the loop: the URL of a day, or "no version found"
UrlOfDay(fmt, day, versions) ==
    LET url == DateSubst(fmt, day)
        k == FirstVersion(versions.list, day)
    IN  IF ~VersionsUsed(versions) THEN [found |-> TRUE, url |-> url]
        ELSE IF k = 0 THEN [found |-> FALSE, url |-> url]
        ELSE [found |-> TRUE, url |-> IdSubst(url, versions.list[k].identifiers, 1)]

urls_build(fmt, range_start, range_end, versions) ==
    LET days == UrlDays(range_start, range_end)
        each == [i \in DOMAIN days |-> UrlOfDay(fmt, days[i], versions)]
    IN  IF \E i \in DOMAIN each : ~each[i].found
        THEN [exc |-> "RuntimeError", urls |-> <<>>]
        ELSE [exc |-> "None", urls |-> [i \in DOMAIN each |-> each[i].url]]

-----------------------------------------------------------------------------
(* SpecUrls: urls_build applied to every template, range and version list *)

Midnights == {t \in 0..(MaxTime + 1) : t % DayLen = 0}

IdLists == {<<"v1">>, <<"v2", "b">>}

Versions ==
    {v \in [version_start : Midnights, version_end : Midnights, identifiers : IdLists] :
        v.version_start < v.version_end}

RECURSIVE SeqsUpTo(_, _)
SeqsUpTo(S, n) ==
    IF n = 0 THEN {<<>>}
    ELSE LET shorter == SeqsUpTo(S, n - 1)
         IN  shorter \cup {Append(s, x) : s \in {t \in shorter : Len(t) = n - 1}, x \in S}

VersionArgs ==
    {[given |-> FALSE, list |-> <<>>]}
    \cup {[given |-> TRUE, list |-> l] : l \in SeqsUpTo(Versions, MaxVersions)}

Templates ==
    { <<"http:", "/", "host", "/", "mag_", "{DOY}", ".", "cdf">>,
      <<"http:", "/", "host", "/", "{YYYY}", "/", "swe_", "{MM}", "{DD}", "_", "{V0}", "{V1}",
        ".", "cdf", ".", "gz">> }

Idle == "none"

\* a directory without files
NoFiles == [p \in {} |-> <<>>]

\* the result variable before the call
NoOut == [exc |-> "unset"]

InitUrls ==
    /\ inp \in [fmt : Templates, range_start : Times, range_end : Times,
                versions : VersionArgs]
    /\ out = NoOut
    /\ spice = Idle /\ sc = Idle /\ kernels = {} /\ regCols = Idle /\ disk = {}
    /\ cacheDir = FALSE /\ fs = NoFiles /\ shadow = NoFiles /\ req = Idle /\ last = Idle

UrlsBuild ==
    /\ out.exc = "unset"
    /\ out' = urls_build(inp.fmt, inp.range_start, inp.range_end, inp.versions)
    /\ UNCHANGED <<inp>>
    /\ UNCHANGED pureVars

NextUrls == UrlsBuild

SpecUrls == InitUrls /\ [][NextUrls]_vars

\* the URL the specification gives a day under a version's identifiers: the
\* template with "{V0}", "{V1}" replaced by the identifiers and the date filled in
VersionedUrl(fmt, day, ids) ==
    [j \in DOMAIN fmt |->
        IF fmt[j] = "{V0}" /\ Len(ids) >= 1 THEN ids[1]
        ELSE IF fmt[j] = "{V1}" /\ Len(ids) >= 2 THEN ids[2]
        ELSE DateSubst(fmt, day)[j]]

InVersion(v, day) == v.version_start <= day /\ day < v.version_end

\* C8: with a (non-empty) version list, every day's URL carries the identifiers of a
\* version whose half-open interval [version_start, version_end) contains the day,
\* and the call fails with RuntimeError, returning no URL at all, when some day of
\* the range lies in no version interval.
C8_VersionSubstitution ==
    (out.exc # "unset" /\ VersionsUsed(inp.versions)) =>
        LET days == UrlDays(inp.range_start, inp.range_end)
            vs == inp.versions.list
        IN  IF \A i \in DOMAIN days : \E k \in DOMAIN vs : InVersion(vs[k], days[i])
            THEN /\ out.exc = "None"
                 /\ Len(out.urls) = Len(days)
                 /\ \A i \in DOMAIN days : \E k \in DOMAIN vs :
                        /\ InVersion(vs[k], days[i])
                        /\ out.urls[i] = VersionedUrl(inp.fmt, days[i], vs[k].identifiers)
            ELSE out.exc = "RuntimeError" /\ out.urls = <<>>

\* a call that returned two URLs of two different versions, the second day being the
\* first version's version_end and the second version's version_start
C8_Witness ==
    /\ out.exc = "None"
    /\ VersionsUsed(inp.versions)
    /\ Len(inp.versions.list) = 2
    /\ Len(out.urls) = 2
    /\ inp.versions.list[1].version_end = inp.range_start + DayLen
    /\ inp.versions.list[2].version_start = inp.range_start + DayLen
    /\ inp.versions.list[1].identifiers # inp.versions.list[2].identifiers
    /\ "{V0}" \in Range(inp.fmt)
    /\ out.urls[1] # out.urls[2]
    /\ out.urls[2] = VersionedUrl(inp.fmt, inp.range_start + DayLen,
                                  inp.versions.list[2].identifiers)

\* C10: for range_start <= range_end the result holds exactly one URL per calendar
\* day from the day of range_start to the day of range_end inclusive, ascending.
C10_OneUrlPerCalendarDay ==
    (out.exc = "None" /\ inp.range_start <= inp.range_end /\ ~VersionsUsed(inp.versions)) =>
        LET first == DateOf(inp.range_start)
            n == DateOf(inp.range_end) - first + 1
        IN  out.urls = [i \in 1..n |-> DateSubst(inp.fmt, (first + i - 1) * DayLen)]

-----------------------------------------------------------------------------
(* numpy arrays: a shape and the elements in row-major order *)

SecPerUnit == 2     \* epoch seconds per datetime unit
MaxRows == 3        \* most rows in one parsed file

\* datetime.timestamp(): epoch seconds of a datetime
Timestamp(t) == t * SecPerUnit

RECURSIVE Flatten(_)
Flatten(rows) == IF rows = <<>> THEN <<>> ELSE Head(rows) \o Flatten(Tail(rows))

\* a 1-D array of the elements of a sequence
Arr1(s) == [shape |-> <<Len(s)>>, flat |-> s]

\* a 2-D array of n rows of c columns
Arr2(rows, c) == [shape |-> <<Len(rows), c>>, flat |-> Flatten(rows)]

\* np.array([]): the empty 1-D array
EmptyArr == [shape |-> <<0>>, flat |-> <<>>]

\* np.squeeze: every axis of length 1 is dropped
Squeeze(a) == [shape |-> SelectSeq(a.shape, LAMBDA d : d # 1), flat |-> a.flat]

NDim(a) == Len(a.shape)

\* row r of a 2-D array
RowOf(a, r) == SubSeq(a.flat, (r - 1) * a.shape[2] + 1, r * a.shape[2])

RowsOf(a) == [r \in 1..a.shape[1] |-> RowOf(a, r)]

\* the elements of s at the (ascending) positions idx
Pick(s, idx) == [k \in DOMAIN idx |-> s[idx[k]]]

\* the positions 1..Len(s) in ascending order
Positions(s) == [i \in 1..Len(s) |-> i]

-----------------------------------------------------------------------------
(* read_file, from the parsed columns on (lines 393-432): file.time is the time   *)
(* column in epoch seconds, file.rows the value columns side by side (c >= 1)     *)

Formats == {"cdf", "netcdf", "pds3"}

\* mask = np.where((time > range_start.timestamp()) & (time < range_end.timestamp()))[0]
WindowMask(time, range_start, range_end) ==
    SelectSeq(Positions(time),
              LAMBDA i : time[i] > Timestamp(range_start) /\ time[i] < Timestamp(range_end))


\* mask_slice = slice(mask[0], mask[-1] + 1): every position from the first masked
\* one to the last masked one
MaskSlice(mask) == [k \in 1..(mask[Len(mask)] - mask[1] + 1) |-> mask[1] + k - 1]

\* `if values:` and the two strict comparisons on the first value column
ValuesUsed(values) == values.given /\ Len(values.list) > 0

read_file(file, range_start, range_end, kwargs) ==
    IF kwargs.format \notin Formats
    THEN [exc |-> "NotImplementedError", time |-> EmptyArr, data |-> EmptyArr]
    ELSE
    LET mask == WindowMask(file.time, range_start, range_end)
    IN  IF Len(mask) > 0
        THEN LET sl == MaskSlice(mask)
                 time_part == Squeeze(Arr1(Pick(file.time, sl)))
                 data_part == Squeeze(Arr2(Pick(file.rows, sl), file.c))
             IN  IF ~ValuesUsed(kwargs.values)
                 THEN [exc |-> "None", time |-> time_part, data |-> data_part]
                 ELSE IF NDim(data_part) # 2
                 \* data_part[:, 0] on an array squeezed below two axes
                 THEN [exc |-> "IndexError", time |-> EmptyArr, data |-> EmptyArr]
                 ELSE LET rows == RowsOf(data_part)
                          valid == SelectSeq(Positions(rows),
                                     LAMBDA r : rows[r][1] > kwargs.values.list[1]
                                                /\ rows[r][1] < kwargs.values.list[2])
                      IN  [exc |-> "None",
                           time |-> Arr1(Pick(time_part.flat, valid)),
                           data |-> Arr2(Pick(rows, valid), data_part.shape[2])]
        ELSE [exc |-> "None", time |-> EmptyArr, data |-> EmptyArr]

-----------------------------------------------------------------------------
(* SpecRead: read_file applied to every small parsed file and window *)

RowSeconds == 0..(2 * SecPerUnit + 1)

ReadTimes == 0..2

\* a value row of c columns whose first column holds v
ValueRow(v, c) == [j \in 1..c |-> IF j = 1 THEN v ELSE 7]

ParsedFiles(most) ==
    UNION {
        {[time |-> t, rows |-> [i \in 1..n |-> ValueRow(f[i], c)], c |-> c] :
            t \in [1..n -> RowSeconds], f \in [1..n -> {1, 9}]}
        : n \in 0..most, c \in 1..2}

ValuesArgs == {[given |-> FALSE, list |-> <<>>], [given |-> TRUE, list |-> <<0, 5>>]}

InitRead ==
    /\ inp \in [file : ParsedFiles(MaxRows), range_start : ReadTimes, range_end : ReadTimes,
                kwargs : [format : {"cdf", "ascii"}, values : ValuesArgs]]
    /\ out = NoOut
    /\ spice = Idle /\ sc = Idle /\ kernels = {} /\ regCols = Idle /\ disk = {}
    /\ cacheDir = FALSE /\ fs = NoFiles /\ shadow = NoFiles /\ req = Idle /\ last = Idle

ReadFile ==
    /\ out.exc = "unset"
    /\ out' = read_file(inp.file, inp.range_start, inp.range_end, inp.kwargs)
    /\ UNCHANGED <<inp>>
    /\ UNCHANGED pureVars

NextRead == ReadFile

SpecRead == InitRead /\ [][NextRead]_vars

\* C6: read_file returns only rows whose time lies strictly between range_start and
\* range_end, sorted time column or not, and returns two empty arrays without
\* raising when no row lies in the window.
C6_OnlyRowsInsideWindow ==
    (out.exc # "unset" /\ inp.kwargs.format \in Formats) =>
        LET inside(x) == Timestamp(inp.range_start) < x /\ x < Timestamp(inp.range_end)
        IN  /\ out.exc = "None" => \A i \in DOMAIN out.time.flat : inside(out.time.flat[i])
            /\ (\A i \in DOMAIN inp.file.time : ~inside(inp.file.time[i])) =>
                    out.exc = "None" /\ out.time = EmptyArr /\ out.data = EmptyArr

-----------------------------------------------------------------------------
(* get_data_raw, the parsing and concatenation of the files (lines 148-169) *)

MaxFiles == 3       \* longest file list tried

RECURSIVE SumTo(_, _)
\* sum(lengths[:i])
SumTo(lengths, i) == IF i = 0 THEN 0 ELSE lengths[i] + SumTo(lengths, i - 1)

\* len(a): the first axis, TypeError on an array without axes
LenOk(a) == NDim(a) >= 1

LenOf(a) == a.shape[1]

\* data[a:b] = src for a destination block of n rows and `columns` columns, by
\* numpy's broadcasting: the rows written, or ok = FALSE (ValueError)
Broadcast(src, n, columns) ==
    IF NDim(src) = 2
    THEN IF (src.shape[1] = n \/ src.shape[1] = 1) /\ (src.shape[2] = columns \/ src.shape[2] = 1)
         THEN [ok |-> TRUE,
               rows |-> [r \in 1..n |-> [j \in 1..columns |->
                            RowOf(src, IF src.shape[1] = 1 THEN 1 ELSE r)
                                 [IF src.shape[2] = 1 THEN 1 ELSE j]]]]
         ELSE [ok |-> FALSE, rows |-> <<>>]
    ELSE IF NDim(src) = 1
    THEN IF src.shape[1] = columns \/ src.shape[1] = 1
         THEN [ok |-> TRUE,
               rows |-> [r \in 1..n |-> [j \in 1..columns |->
                            src.flat[IF src.shape[1] = 1 THEN 1 ELSE j]]]]
         ELSE [ok |-> FALSE, rows |-> <<>>]
    ELSE [ok |-> TRUE, rows |-> [r \in 1..n |-> [j \in 1..columns |-> src.flat[1]]]]

\* columns = len(results[0][1][0]) for a first result whose data has at least one
\* axis and one element along it: the length of its first row
FirstResultColumns(results) == results[1].data.shape[2]

\* results[0][1][0] exists and has a length
ColumnsOk(results) ==
    IF NDim(results[1].data) = 0 \/ results[1].data.shape[1] = 0 THEN "IndexError"
    ELSE IF NDim(results[1].data) = 1 THEN "TypeError"
    ELSE "None"

RECURSIVE FillFrom(_, _, _, _)
\* the loop over the results from position i on: the time elements and data rows
\* written, in order, or the ValueError of a block that does not broadcast
FillFrom(results, lengths, columns, i) ==
    IF i > Len(results) THEN [exc |-> "None", time |-> <<>>, rows |-> <<>>]
    ELSE LET rest == FillFrom(results, lengths, columns, i + 1)
             b == Broadcast(results[i].data, lengths[i], columns)
         IN  IF lengths[i] = 0 THEN rest
             ELSE IF ~b.ok THEN [exc |-> "ValueError", time |-> <<>>, rows |-> <<>>]
             ELSE IF rest.exc # "None" THEN rest
             ELSE [exc |-> "None",
                   time |-> results[i].time.flat \o rest.time,
                   rows |-> b.rows \o rest.rows]

Failed(exc) == [exc |-> exc, time |-> EmptyArr, data |-> EmptyArr]

\* lines 160-169
ConcatenateData(results) ==
    IF \E i \in DOMAIN results : ~LenOk(results[i].time) THEN Failed("TypeError")
    ELSE IF results = <<>> THEN Failed("IndexError")
    ELSE IF ColumnsOk(results) # "None" THEN Failed(ColumnsOk(results))
    ELSE LET lengths == [i \in DOMAIN results |-> LenOf(results[i].time)]
             columns == FirstResultColumns(results)
             filled == FillFrom(results, lengths, columns, 1)
         IN  IF filled.exc # "None" THEN Failed(filled.exc)
             ELSE [exc |-> "None",
                   time |-> Arr1(filled.time),
                   data |-> Arr2(filled.rows, columns)]

\* lines 148-169: the pool, one read_file per file, the concatenation
ParseFiles(files, range_start, range_end, kwargs_read) ==
    LET results == [i \in DOMAIN files |->
                        read_file(files[i], range_start, range_end, kwargs_read)]
        bad == {i \in DOMAIN results : results[i].exc # "None"}
    IN  IF Len(files) = 0 THEN Failed("ValueError")     \* Pool(processes=0)
        ELSE IF bad # {} THEN Failed(results[CHOOSE i \in bad : \A j \in bad : i <= j].exc)
        ELSE ConcatenateData(results)

-----------------------------------------------------------------------------
(* SpecRaw: the concatenation applied to every small list of parsed files *)

\* file number i of a list: n rows, all inside the window (0, MaxRows + 1) seconds,
\* c value columns, the first column naming the file and the row
FileOf(i, n, c) ==
    [time |-> [j \in 1..n |-> j],
     rows |-> [j \in 1..n |-> ValueRow(10 * i + j, c)],
     c |-> c]

FileLists ==
    UNION {{[i \in 1..k |-> FileOf(i, n[i], c[i])] :
                n \in [1..k -> 0..MaxRows], c \in [1..k -> 1..2]} : k \in 0..MaxFiles}

InitRaw ==
    /\ inp \in [files : FileLists, range_start : {0}, range_end : {MaxRows},
                kwargs : [format : {"cdf"},
                          values : {[given |-> FALSE, list |-> <<>>],
                                    [given |-> TRUE, list |-> <<0, 100>>]}]]
    /\ out = NoOut
    /\ spice = Idle /\ sc = Idle /\ kernels = {} /\ regCols = Idle /\ disk = {}
    /\ cacheDir = FALSE /\ fs = NoFiles /\ shadow = NoFiles /\ req = Idle /\ last = Idle

ParseAndConcatenate ==
    /\ out.exc = "unset"
    /\ out' = ParseFiles(inp.files, inp.range_start, inp.range_end, inp.kwargs)
    /\ UNCHANGED <<inp>>
    /\ UNCHANGED pureVars

NextRaw == ParseAndConcatenate

SpecRaw == InitRaw /\ [][NextRaw]_vars

\* the number of elements of an array
Size(a) == Len(a.flat)

\* a per-file result as the specification describes it: no rows at all, or a time
\* array and a two-dimensional data array with one row per time
IsTimeSeries(r) ==
    /\ r.exc = "None"
    /\ \/ r.time = EmptyArr /\ r.data = EmptyArr
       \/ NDim(r.time) = 1 /\ NDim(r.data) = 2 /\ r.data.shape[1] = r.time.shape[1]

\* C7: the per-file results are concatenated in file-list order: the time array is
\* the per-file time arrays one after the other (its length the sum of the row
\* counts), the data array has the same number of rows and the column count of the
\* first non-empty result; for every list of results, also one that starts with
\* files that yield no rows.
C7_ConcatenationShape ==
    LET results == [i \in DOMAIN inp.files |->
                        read_file(inp.files[i], inp.range_start, inp.range_end, inp.kwargs)]
        nonEmpty == {i \in DOMAIN results : Size(results[i].time) > 0}
        allTimes == Flatten([i \in DOMAIN results |-> results[i].time.flat])
    IN  (out.exc # "unset" /\ Len(results) > 0
            /\ \A i \in DOMAIN results : IsTimeSeries(results[i])) =>
            /\ out.exc = "None"
            /\ out.time = Arr1(allTimes)
            /\ nonEmpty # {} =>
                 LET first == CHOOSE i \in nonEmpty : \A j \in nonEmpty : i <= j
                 IN  out.data.shape = <<Len(allTimes), results[first].data.shape[2]>>

-----------------------------------------------------------------------------
(* get_data_files, from the URL list on (lines 219-253) *)

MaxUrls == 3        \* longest URL list tried

\* the last position of token tok in s, 0 when there is none
LastIndex(s, tok) ==
    LET at == {i \in DOMAIN s : s[i] = tok}
    IN  IF at = {} THEN 0 ELSE CHOOSE i \in at : \A j \in at : j <= i

\* url.split("/")[-1]
LastSegment(url) == SubSeq(url, LastIndex(url, "/") + 1, Len(url))

\* name.endswith(".gz")
EndsWithGz(name) == Len(name) >= 2 /\ name[Len(name) - 1] = "." /\ name[Len(name)] = "gz"

\* ".".join(name.split(".")[:-1])
DropSuffix(name) == SubSeq(name, 1, LastIndex(name, ".") - 1)

\* os.path.join(heliosat._paths["data"], data_key)
DataPath(data_key) == <<"data", "/", data_key>>

\* os.path.join(data_path, file)
Join(data_path, file) == data_path \o <<"/">> \o file

RECURSIVE RemoveFirst(_, _)
\* list.remove(x): the first element equal to x is removed
RemoveFirst(l, x) ==
    IF l = <<>> THEN <<>>
    ELSE IF Head(l) = x THEN Tail(l) ELSE <<Head(l)>> \o RemoveFirst(Tail(l), x)

RECURSIVE SkipExtracted(_, _, _, _, _)
\* lines 220-231, the loop over list(urls) from position i on: the URLs left to
\* download and the paths of the archives found extracted already
SkipExtracted(copy, i, urls, files_extracted, env) ==
    IF i > Len(copy) THEN [urls |-> urls, files_extracted |-> files_extracted]
    ELSE LET url == copy[i]
             file == DropSuffix(LastSegment(url))
         IN  IF EndsWithGz(url) /\ Join(env.data_path, file) \in env.disk
             THEN SkipExtracted(copy, i + 1, RemoveFirst(urls, url),
                                Append(files_extracted, Join(env.data_path, file)), env)
             ELSE SkipExtracted(copy, i + 1, urls, files_extracted, env)

\* download_files(urls, data_path): every URL's file is on disk afterwards, under the
\* name of its last path segment
download_files(urls, data_path, d) ==
    d \cup {Join(data_path, LastSegment(urls[i])) : i \in DOMAIN urls}

RECURSIVE ExtractInPlace(_, _, _, _)
ExtractInPlace(copy, i, files, d) ==
    IF i > Len(copy) THEN [exc |-> "None", files |-> files, disk |-> d]
    ELSE LET file == copy[i]
         IN  IF ~EndsWithGz(file) THEN ExtractInPlace(copy, i + 1, files, d)
             ELSE IF file \notin d
             THEN [exc |-> "FileNotFoundError", files |-> <<>>, disk |-> d]
             ELSE ExtractInPlace(copy, i + 1,
                      [k \in DOMAIN files |-> IF files[k] = file THEN DropSuffix(file)
                                               ELSE files[k]],
                      (d \ {file}) \cup {DropSuffix(file)})

RECURSIVE ExtractArchives(_, _, _, _)
\* lines 243-251, the loop over list(files) from position i on: every archive is
\* extracted beside itself and removed, its entry taken out of the list and the
\* extracted path appended
ExtractArchives(copy, i, files, d) ==
    IF i > Len(copy) THEN [exc |-> "None", files |-> files, disk |-> d]
    ELSE LET file == copy[i]
         IN  IF ~EndsWithGz(file) THEN ExtractArchives(copy, i + 1, files, d)
             ELSE IF file \notin d                      \* gzip.open on a removed file
             THEN [exc |-> "FileNotFoundError", files |-> <<>>, disk |-> d]
             ELSE ExtractArchives(copy, i + 1,
                      Append(RemoveFirst(files, file), DropSuffix(file)),
                      (d \ {file}) \cup {DropSuffix(file)})

\* lines 219-253: the files of a URL list, the disk afterwards and the URLs
\* handed to download_files
FilesOfUrls(urls0, data_key, d) ==
    LET data_path == DataPath(data_key)
        skipped == SkipExtracted(urls0, 1, urls0, <<>>, [data_path |-> data_path, disk |-> d])
        urls == skipped.urls
        d1 == download_files(urls, data_path, d)
        files == [i \in DOMAIN urls |-> Join(data_path, LastSegment(urls[i]))]
                    \o skipped.files_extracted
        done == ExtractArchives(files, 1, files, d1)
    IN  [exc |-> done.exc, files |-> done.files, disk |-> done.disk, downloaded |-> urls]

-----------------------------------------------------------------------------
(* SpecFiles: the file list of every small URL list and every set of files that   *)
(* exist extracted before the call                                                 *)

PlainUrl == <<"http:", "/", "host", "/", "a", ".", "cdf">>

ArchiveUrls == { <<"http:", "/", "host", "/", "b", ".", "cdf", ".", "gz">>,
                 <<"http:", "/", "host", "/", "c", ".", "cdf", ".", "gz">> }

UrlLists == SeqsUpTo({PlainUrl} \cup ArchiveUrls, MaxUrls)

ExtractedPath(url, data_key) == Join(DataPath(data_key), DropSuffix(LastSegment(url)))

InitFiles ==
    /\ inp \in [urls : UrlLists, data_key : {"mag"}]
    /\ disk \in SUBSET {ExtractedPath(u, "mag") : u \in ArchiveUrls}
    /\ out = NoOut
    /\ spice = Idle /\ sc = Idle /\ kernels = {} /\ regCols = Idle
    /\ cacheDir = FALSE /\ fs = NoFiles /\ shadow = NoFiles /\ req = Idle /\ last = Idle

ResolveFiles ==
    /\ out.exc = "unset"
    /\ LET r == FilesOfUrls(inp.urls, inp.data_key, disk)
       IN  /\ out' = [exc |-> r.exc, files |-> r.files, downloaded |-> r.downloaded,
                      before |-> disk]
           /\ disk' = r.disk
    /\ UNCHANGED <<inp, spice, sc, kernels, regCols, cacheDir, fs, shadow, req, last>>

NextFiles == ResolveFiles

SpecFiles == InitFiles /\ [][NextFiles]_vars

\* the URLs of the call whose extracted file existed before it, and the others
WasExtracted(url) == EndsWithGz(url) /\ ExtractedPath(url, inp.data_key) \in out.before

LocalPath(url) == Join(DataPath(inp.data_key), LastSegment(url))

\* C9 (as claimed): the call returns the freshly downloaded files in URL order,
\* archives under their extracted name, followed by the previously extracted files.
C9_FreshThenExtracted ==
    out.exc = "None" =>
        LET fresh == SelectSeq(inp.urls, LAMBDA u : ~WasExtracted(u))
            old == SelectSeq(inp.urls, WasExtracted)
        IN  out.files =
                [i \in DOMAIN fresh |-> IF EndsWithGz(fresh[i])
                                        THEN ExtractedPath(fresh[i], inp.data_key)
                                        ELSE LocalPath(fresh[i])]
                \o [i \in DOMAIN old |-> ExtractedPath(old[i], inp.data_key)]

\* C9 (amended): the call returns the downloaded files that are no archives in URL
\* order, then the previously extracted files in URL order, then the freshly
\* downloaded archives under their extracted names in URL order.
C9_PlainExtractedThenArchives ==
    out.exc = "None" =>
        LET plain == SelectSeq(inp.urls, LAMBDA u : ~EndsWithGz(u))
            old == SelectSeq(inp.urls, WasExtracted)
            new == SelectSeq(inp.urls, LAMBDA u : EndsWithGz(u) /\ ~WasExtracted(u))
        IN  out.files =
                [i \in DOMAIN plain |-> LocalPath(plain[i])]
                \o [i \in DOMAIN old |-> ExtractedPath(old[i], inp.data_key)]
                \o [i \in DOMAIN new |-> ExtractedPath(new[i], inp.data_key)]

\* a call that returned for a list holding a new archive, then an archive extracted
\* before, then a plain file
C9_Witness ==
    /\ out.exc = "None"
    /\ Len(inp.urls) = 3
    /\ EndsWithGz(inp.urls[1]) /\ ~WasExtracted(inp.urls[1])
    /\ WasExtracted(inp.urls[2])
    /\ inp.urls[3] = PlainUrl
    /\ out.files = <<LocalPath(PlainUrl), ExtractedPath(inp.urls[2], inp.data_key),
                     ExtractedPath(inp.urls[1], inp.data_key)>>
    /\ out.downloaded = <<inp.urls[1], inp.urls[3]>>

-----------------------------------------------------------------------------
(* caching.py: the cache directory c = [dir |-> exists, files |-> name -> bytes] *)

\* pickle.dump / pickle.load: the object framed by the protocol header and STOP
Pickle(obj) == [proto |-> "PROTO", payload |-> obj, stop |-> "STOP"]

Unpickle(bytes) ==
    IF bytes.proto = "PROTO" /\ bytes.stop = "STOP"
    THEN [exc |-> "None", ret |-> bytes.payload]
    ELSE [exc |-> "UnpicklingError", ret |-> bytes.payload]

\* os.path.join(cache_path, "{}.cache".format(key))
CacheFile(key) == <<"cache", "/", key, ".", "cache">>

\* open(path, "wb") and the write: the file is created or replaced
WriteFile(files, path, bytes) ==
    [p \in DOMAIN files \cup {path} |-> IF p = path THEN bytes ELSE files[p]]

\* os.remove(path)
RemoveFile(files, path) == [p \in DOMAIN files \ {path} |-> files[p]]

cache_entry_exists(key, c) == CacheFile(key) \in DOMAIN c.files

get_cache_entry(key, c) ==
    IF ~cache_entry_exists(key, c) THEN [exc |-> "KeyError", ret |-> "None"]
    ELSE Unpickle(c.files[CacheFile(key)])

delete_cache_entry(key, c) ==
    IF ~cache_entry_exists(key, c) THEN [exc |-> "KeyError", cache |-> c]
    ELSE [exc |-> "None", cache |-> [c EXCEPT !.files = RemoveFile(c.files, CacheFile(key))]]

set_cache_entry_once(key, obj, c) ==
    IF cache_entry_exists(key, c) THEN [exc |-> "None", cache |-> c]
    ELSE [exc |-> "None",
          cache |-> [dir |-> TRUE, files |-> WriteFile(c.files, CacheFile(key), Pickle(obj))]]

set_cache_entry(key, obj, c) ==
    [exc |-> "None",
     cache |-> [dir |-> TRUE,       \* os.makedirs(cache_path) when it is missing
                files |-> WriteFile(c.files, CacheFile(key), Pickle(obj))]]

-----------------------------------------------------------------------------
(* SpecCache: any sequence of the four cache calls on three keys *)

Keys == {"k1", "k2", "k3"}

Objects == {"o1", "o2"}

Cache == [dir |-> cacheDir, files |-> fs]

\* the map of the specification after a call: a set that returned binds the key, a
\* delete that returned unbinds it, everything else leaves the map alone
Bind(m, key, obj) == [k \in DOMAIN m \cup {key} |-> IF k = key THEN obj ELSE m[k]]

Unbind(m, key) == [k \in DOMAIN m \ {key} |-> m[k]]

InitCache ==
    /\ cacheDir = FALSE /\ fs = NoFiles /\ shadow = NoFiles
    /\ last = [op |-> "none", key |-> "k1", had |-> FALSE, exc |-> "None", ret |-> "None"]
    /\ inp = Idle /\ out = NoOut
    /\ spice = Idle /\ sc = Idle /\ kernels = {} /\ regCols = Idle /\ disk = {} /\ req = Idle

SetCacheEntry(key, obj) ==
    LET r == set_cache_entry(key, obj, Cache)
    IN  /\ cacheDir' = r.cache.dir
        /\ fs' = r.cache.files
        /\ shadow' = IF r.exc = "None" THEN Bind(shadow, key, obj) ELSE shadow
        /\ last' = [op |-> "set", key |-> key, had |-> key \in DOMAIN shadow,
                    exc |-> r.exc, ret |-> "None"]
        /\ UNCHANGED <<inp, out, spice, sc, kernels, regCols, disk, req>>

GetCacheEntry(key) ==
    LET r == get_cache_entry(key, Cache)
    IN  /\ last' = [op |-> "get", key |-> key, had |-> key \in DOMAIN shadow,
                    exc |-> r.exc, ret |-> r.ret]
        /\ UNCHANGED <<cacheDir, fs, shadow, inp, out, spice, sc, kernels, regCols, disk, req>>

DeleteCacheEntry(key) ==
    LET r == delete_cache_entry(key, Cache)
    IN  /\ cacheDir' = r.cache.dir
        /\ fs' = r.cache.files
        /\ shadow' = IF r.exc = "None" THEN Unbind(shadow, key) ELSE shadow
        /\ last' = [op |-> "delete", key |-> key, had |-> key \in DOMAIN shadow,
                    exc |-> r.exc, ret |-> "None"]
        /\ UNCHANGED <<inp, out, spice, sc, kernels, regCols, disk, req>>

CacheEntryExists(key) ==
    /\ last' = [op |-> "exists", key |-> key, had |-> key \in DOMAIN shadow,
                exc |-> "None",
                ret |-> IF cache_entry_exists(key, Cache) THEN "True" ELSE "False"]
    /\ UNCHANGED <<cacheDir, fs, shadow, inp, out, spice, sc, kernels, regCols, disk, req>>

NextCache ==
    \/ \E key \in Keys, obj \in Objects : SetCacheEntry(key, obj)
    \/ \E key \in Keys : GetCacheEntry(key)
    \/ \E key \in Keys : DeleteCacheEntry(key)
    \/ \E key \in Keys : CacheEntryExists(key)

SpecCache == InitCache /\ [][NextCache]_vars

\* C1: the cache directory is the key -> object map of the calls made so far: a key
\* exists exactly when its last set or delete that returned was a set, get returns
\* the object of the latest set, set never fails and overwrites, delete and get of
\* an absent key raise KeyError, and a call changes no entry but the one of a
\* set or delete that returned.
C1_CacheIsMap ==
    /\ \A k \in Keys :
          /\ cache_entry_exists(k, Cache) <=> k \in DOMAIN shadow
          /\ k \in DOMAIN shadow => get_cache_entry(k, Cache) = [exc |-> "None", ret |-> shadow[k]]
    /\ last.op = "set" => last.exc = "None"
    /\ last.op = "get" =>
          IF last.had THEN last.exc = "None" /\ last.ret = shadow[last.key]
          ELSE last.exc = "KeyError"
    /\ last.op = "delete" => last.exc = (IF last.had THEN "None" ELSE "KeyError")
    /\ last.op = "exists" => last.ret = (IF last.had THEN "True" ELSE "False")

\* a get of k1 that returned the object o2 while k1 is the only entry on disk
C1_Witness ==
    /\ last.op = "get" /\ last.key = "k1" /\ last.exc = "None" /\ last.ret = "o2"
    /\ DOMAIN shadow = {"k1"}
    /\ DOMAIN fs = {CacheFile("k1")}
    /\ cacheDir

-----------------------------------------------------------------------------
(* Spacecraft.get_data, the request identity and its cache key (lines 80-101).     *)
(* A keyword argument value is a Python literal [t |-> type, v |-> text]; kwargs   *)
(* is a function from the names that were passed to their values.                  *)

PyBool(b) == [t |-> "bool", v |-> IF b THEN "True" ELSE "False"]
PyStr(x) == [t |-> "str", v |-> x]
PyInt(x) == [t |-> "int", v |-> ToString(x)]
PyFloat(x) == [t |-> "float", v |-> ToString(x) \o ".0"]
PyNone == [t |-> "NoneType", v |-> "None"]
PyList(x) == [t |-> "list", v |-> x]

\* bool(value)
Truthy(val) ==
    CASE val.t = "bool" -> val.v = "True"
      [] val.t = "int" -> val.v # "0"
      [] val.t = "float" -> val.v # "0.0"
      [] val.t = "NoneType" -> FALSE
      [] OTHER -> val.v # ""

\* json.dumps of one value
JsonValue(val) ==
    CASE val.t = "bool" -> (IF val.v = "True" THEN "true" ELSE "false")
      [] val.t = "NoneType" -> "null"
      [] val.t = "str" -> "\"" \o val.v \o "\""
      [] OTHER -> val.v

RECURSIVE JoinComma(_)
\* ", ".join(parts)
JoinComma(parts) ==
    IF parts = <<>> THEN ""
    ELSE IF Len(parts) = 1 THEN parts[1]
    ELSE parts[1] \o ", " \o JoinComma(Tail(parts))

\* json.dumps of the list of epoch seconds of the requested times
JsonTimes(t) == "[" \o JoinComma([i \in DOMAIN t |-> JsonValue(PyFloat(Timestamp(t[i])))]) \o "]"

\* the names an identity record can hold, in the order sort_keys=True puts them
SortedNames ==
    << "cache", "cache_raw", "data_key", "extra_columns", "frame", "frame_static",
       "smoothing", "smoothing_scale", "spacecraft", "times" >>

\* dict.get(name, None) and `name in dict`
Has(d, name) == name \in DOMAIN d

Get(d, name) == IF name \in DOMAIN d THEN d[name] ELSE PyNone

\* dict.update(other)
Update(d, other) ==
    [k \in DOMAIN d \cup DOMAIN other |-> IF k \in DOMAIN other THEN other[k] ELSE d[k]]

\* the dictionary without the names popped from it
Without(d, names) == [k \in DOMAIN d \ names |-> d[k]]

\* json.dumps(identifiers, sort_keys=True)
JsonDumps(identifiers) ==
    LET names == SelectSeq(SortedNames, LAMBDA k : k \in DOMAIN identifiers)
    IN  "{" \o JoinComma([i \in DOMAIN names |->
                "\"" \o names[i] \o "\": " \o identifiers[names[i]]]) \o "}"

\* hashlib.sha256(...).hexdigest(): the digest stands for the text it was computed
\* from (no two texts of the model share a digest)
Sha256(text) == "sha256:" \o text

generate_cache_key(identifiers) == Sha256(JsonDumps(identifiers))

\* the names that hold the text "smoothing"
SmoothingNames == {"smoothing", "smoothing_scale"}

\* lines 88-97: the names get_data pops before it looks up the cache
PoppedNames(kwargs) == {"cache", "frame"} \cup (SmoothingNames \cap DOMAIN kwargs)

IdentifierAfterPops(name, t, data_key, kwargs) ==
    Update([data_key |-> JsonValue(PyStr(data_key)),
            spacecraft |-> JsonValue(PyStr(name)),
            times |-> JsonTimes(t)],
           [k \in DOMAIN kwargs \ PoppedNames(kwargs) |-> JsonValue(kwargs[k])])

\* lines 80-86: the identity record, every keyword argument included, built before
\* any argument is popped
Identifier(name, t, data_key, kwargs) ==
    Update([data_key |-> JsonValue(PyStr(data_key)),
            spacecraft |-> JsonValue(PyStr(name)),
            times |-> JsonTimes(t)],
           [k \in DOMAIN kwargs |-> JsonValue(kwargs[k])])

\* lines 88, 100-101: the key is derived when the cache argument is true
CacheRequested(kwargs) == Truthy(Get(kwargs, "cache"))

CacheKey(name, t, data_key, kwargs) == generate_cache_key(Identifier(name, t, data_key, kwargs))

-----------------------------------------------------------------------------
(* SpecKey: the keys of two requests for the same spacecraft, data key and times *)

\* every way to pass or omit each option
OptionValues ==
    [cache |-> {PyBool(TRUE), PyBool(FALSE)},
     frame |-> {PyStr("HEEQ"), PyStr("HAE")},
     frame_static |-> {PyBool(TRUE)},
     smoothing |-> {PyStr("kernel")},
     smoothing_scale |-> {PyInt(1), PyInt(2)}]

KwargsOver(names) ==
    UNION {{f \in [D -> UNION {OptionValues[k] : k \in D}] :
                \A k \in D : f[k] \in OptionValues[k]} : D \in SUBSET names}

AllKwargs == KwargsOver(DOMAIN OptionValues)

InitKey ==
    /\ inp \in [a : AllKwargs, b : AllKwargs, t : {<<DayLen, DayLen + 2>>}]
    /\ out = NoOut
    /\ cacheDir = FALSE /\ fs = NoFiles /\ shadow = NoFiles
    /\ spice = Idle /\ sc = Idle /\ kernels = {} /\ regCols = Idle /\ disk = {}
    /\ req = Idle /\ last = Idle

KeyOrNone(kwargs, t) ==
    IF CacheRequested(kwargs) THEN CacheKey("wind", t, "mag", kwargs) ELSE "None"

DeriveKeys ==
    /\ out.exc = "unset"
    /\ out' = [exc |-> "None", a |-> KeyOrNone(inp.a, inp.t), b |-> KeyOrNone(inp.b, inp.t)]
    /\ UNCHANGED <<inp>>
    /\ UNCHANGED pureVars

NextKey == DeriveKeys

SpecKey == InitKey /\ [][NextKey]_vars

BothDerived == out.exc = "None" /\ out.a # "None" /\ out.b # "None"

\* the two requests pass the same value, or both nothing, for every name of the set
AgreeOn(names) ==
    \A k \in names : (k \in DOMAIN inp.a <=> k \in DOMAIN inp.b)
                     /\ (k \in DOMAIN inp.a => inp.a[k] = inp.b[k])

\* C3 (as claimed): requests that differ only in cache, frame or frame_static derive
\* the same key, and requests that differ in a smoothing parameter different keys.
C3_KeyIgnoresFlags ==
    BothDerived =>
        /\ AgreeOn(SmoothingNames) => out.a = out.b
        /\ ~AgreeOn(SmoothingNames) => out.a # out.b

\* C3 (amended): the key is sensitive to the smoothing configuration and to the
\* frame and frame_static options as well (the identity record holds every keyword
\* argument): two cached requests derive the same key exactly when they pass the
\* same options.
C3_KeySensitiveToEveryOption ==
    BothDerived => (out.a = out.b <=> inp.a = inp.b)

\* two cached requests that differ in the frame option alone, with different keys
C3_Witness ==
    /\ BothDerived
    /\ AgreeOn(DOMAIN OptionValues \ {"frame"})
    /\ ~AgreeOn({"frame"})
    /\ "smoothing" \in DOMAIN inp.a
    /\ out.a # out.b

-----------------------------------------------------------------------------
(* The metadata registry (json/spacecraft.json) and the remote data of the model *)

MaxReqTime == 11    \* the requested times range over 0..MaxReqTime

ReqTimes == 0..MaxReqTime

NoVersions == [given |-> FALSE, list |-> <<>>]

NoValues == [given |-> FALSE, list |-> <<>>]

\* one mission, from the second day to the last requested time but one, with a
\* product of plain files in a declared frame and a product of archives without a
\* frame, resolved by pattern, whose versions end with the third day
Registry ==
    [name \in {"wind"} |->
        [kernel_group |-> "wind",
         mission_start |-> DayLen,
         mission_end |-> MaxReqTime - 1,
         data |->
            [key \in {"mag", "swe"} |->
                IF key = "mag"
                THEN [urls |-> <<"http:", "/", "host", "/", "mag_", "{DOY}", ".", "cdf">>,
                      format |-> "cdf", columns |-> <<"Epoch", "BX", "BY">>,
                      values |-> NoValues, has_frame |-> TRUE, frame |-> "GSE",
                      versions |-> NoVersions, use_regex |-> FALSE]
                ELSE [urls |-> <<"http:", "/", "host", "/", "swe_", "{DOY}", "_", "{V0}",
                                 "*", ".", "cdf", ".", "gz">>,
                      format |-> "cdf", columns |-> <<"Epoch", "Np", "Vp">>,
                      values |-> [given |-> TRUE, list |-> <<0, 100>>],
                      has_frame |-> FALSE, frame |-> "",
                      versions |-> [given |-> TRUE,
                                    list |-> <<[version_start |-> 0,
                                                version_end |-> 2 * DayLen,
                                                identifiers |-> <<"v1">>],
                                               [version_start |-> 2 * DayLen,
                                                version_end |-> 3 * DayLen,
                                                identifiers |-> <<"v2">>]>>],
                      use_regex |-> TRUE]]]]

\* the column selector lists as json.load leaves them in heliosat._spice
LoadedColumns == [key \in DOMAIN Registry["wind"].data |-> Registry["wind"].data[key].columns]

\* urls_resolve(urls): every pattern replaced by the file name the remote listing holds
urls_resolve(urls) == [i \in DOMAIN urls |-> Replace(urls[i], "*", "r1")]

\* the calendar day a local file holds, read off its name
FileDate(path) == CHOOSE d \in 0..DateOf(MaxReqTime) : Fmt03(d + 1) \in Range(path)

\* what the format reader finds in a local file: one row per second of its day,
\* one value column per selector after the time selector
FileContent(path, columns) ==
    LET first == Timestamp(FileDate(path) * DayLen)
        n == Timestamp(DayLen)
        c == Len(columns) - 1
    IN  [time |-> [j \in 1..n |-> first + j - 1],
         rows |-> [j \in 1..n |-> [k \in 1..c |-> k]],
         c |-> c]

\* smooth_data(t, time, data, **smoothing): the series resampled onto the requested
\* times, each taking the row of the first sample
smooth_data(t, time, data) ==
    [time |-> Arr1([i \in DOMAIN t |-> Timestamp(t[i])]),
     data |-> Arr2([i \in DOMAIN t |-> RowOf(data, 1)], data.shape[2])]

\* transform_frame(time, data, source, target): a rotated array of the same shape
transform_frame(data, source, target) == [data EXCEPT !.flat = [i \in DOMAIN data.flat |-> -data.flat[i]]]

-----------------------------------------------------------------------------
(* Spacecraft: the world w = [disk, cols, cache] a call reads and leaves behind *)

mission_start(name) == Registry[name].mission_start

mission_end(name) == Registry[name].mission_end

RangeCheckStartOnly(name, range_start, range_end) == range_start < mission_start(name)

\* line 202
InvalidRange(name, range_start, range_end) ==
    range_start < mission_start(name) \/ range_end > mission_end(name)

\* the one element of a set of one element: a result computed once and then named
The(S) == CHOOSE x \in S : TRUE

NoFilesResult(exc, w) ==
    [exc |-> exc, files |-> <<>>, w |-> w, built |-> <<>>, downloaded |-> <<>>]

get_data_files(name, range_start, range_end, data_key, w) ==
    LET descr == Registry[name].data[data_key]
        Local(built, r) ==
            [exc |-> r.exc, files |-> r.files, w |-> [w EXCEPT !.disk = r.disk],
             built |-> built.urls, downloaded |-> r.downloaded]
        Resolved(built) ==
            LET urls == IF descr.use_regex THEN urls_resolve(built.urls) ELSE built.urls
            IN  IF built.exc # "None" THEN NoFilesResult(built.exc, w)
                ELSE The({Local(built, r) : r \in {FilesOfUrls(urls, data_key, w.disk)}})
    IN  IF InvalidRange(name, range_start, range_end) THEN NoFilesResult("ValueError", w)
        ELSE The({Resolved(built) :
                    built \in {urls_build(descr.urls, range_start, range_end,
                                          descr.versions)}})

\* the list of names passed in extra_columns
ExtraColumns(kwargs) == IF Has(kwargs, "extra_columns") THEN kwargs["extra_columns"].v ELSE <<>>

\* `for file in raw_files: os.remove(file)` fails on a path listed twice
NoDuplicates(files) == \A i, j \in DOMAIN files : files[i] = files[j] => i = j

NoDataResult(exc, f, w) ==
    [exc |-> exc, time |-> EmptyArr, data |-> EmptyArr, w |-> w,
     built |-> f.built, downloaded |-> f.downloaded]

get_data_raw(name, range_start, range_end, data_key, kwargs, w) ==
    LET descr == Registry[name].data[data_key]
        kwargs_read == [format |-> descr.format, values |-> descr.values]
        keep == Truthy(IF Has(kwargs, "cache_raw") THEN kwargs["cache_raw"] ELSE PyBool(TRUE))
        \* kwargs_read["columns"].extend(...) extends the list the registry holds
        Columns(f) == f.w.cols[data_key] \o ExtraColumns(kwargs)
        Concatenated(f, parsed) ==
            LET w1 == [f.w EXCEPT !.cols[data_key] = Columns(f)]
                w2 == IF keep THEN w1 ELSE [w1 EXCEPT !.disk = w1.disk \ Range(f.files)]
            IN  IF parsed.exc # "None" THEN NoDataResult(parsed.exc, f, w1)
                ELSE IF ~keep /\ ~NoDuplicates(f.files)
                THEN NoDataResult("FileNotFoundError", f, w2)
                ELSE [exc |-> "None", time |-> parsed.time, data |-> parsed.data, w |-> w2,
                      built |-> f.built, downloaded |-> f.downloaded]
        Parsed(f) ==
            IF f.exc # "None" THEN NoDataResult(f.exc, f, f.w)
            ELSE IF Len(f.files) = 0 THEN NoDataResult("ValueError", f, f.w)
            ELSE The({Concatenated(f, parsed) :
                        parsed \in {ParseFiles([i \in DOMAIN f.files |->
                                                   FileContent(f.files[i], Columns(f))],
                                               range_start, range_end, kwargs_read)}})
    IN  The({Parsed(f) : f \in {get_data_files(name, range_start, range_end, data_key, w)}})

\* line 106: the raw data between the first and the last requested time, with the
\* keyword arguments that are left after the pops
get_data_raw_first(name, t, data_key, kwargs0, w) ==
    LET kwargs == Without(kwargs0, PoppedNames(kwargs0))
        Raw(raw) ==
            [exc |-> raw.exc, time |-> raw.time, data |-> raw.data, w |-> raw.w,
             hit |-> FALSE, raw |-> TRUE, built |-> raw.built, downloaded |-> raw.downloaded]
    IN  The({Raw(raw) : raw \in {get_data_raw(name, t[1], t[Len(t)], data_key, kwargs, w)}})

CacheLookupSkipped(name, t, data_key, kwargs0, w) ==
    get_data_raw_first(name, t, data_key, kwargs0, w)

\* lines 99-104: the cached pair when caching is requested and the key exists
CacheLookup(name, t, data_key, kwargs0, w) ==
    LET cache_key == CacheKey(name, t, data_key, kwargs0)
        entry == get_cache_entry(cache_key, w.cache)
    IN  IF CacheRequested(kwargs0) /\ cache_entry_exists(cache_key, w.cache)
        THEN [exc |-> entry.exc, time |-> entry.ret.time, data |-> entry.ret.data, w |-> w,
              hit |-> TRUE, raw |-> FALSE, built |-> <<>>, downloaded |-> <<>>]
        ELSE get_data_raw_first(name, t, data_key, kwargs0, w)

get_data(name, t, data_key, kwargs0, w) ==
    LET cache == CacheRequested(kwargs0)
        frame == Get(kwargs0, "frame")
        smoothing == Get(kwargs0, "smoothing")
        cache_key == CacheKey(name, t, data_key, kwargs0)
        descr == Registry[name].data[data_key]
        Processed(got) ==
            LET smoothed == IF Truthy(smoothing) THEN smooth_data(t, got.time, got.data)
                            ELSE [time |-> got.time, data |-> got.data]
                data == IF Truthy(frame) /\ descr.has_frame
                        THEN transform_frame(smoothed.data, descr.frame, frame.v)
                        ELSE smoothed.data
                ret == [time |-> smoothed.time, data |-> data]
                stored == IF cache /\ ~cache_entry_exists(cache_key, got.w.cache)
                          THEN set_cache_entry(cache_key, ret, got.w.cache).cache
                          ELSE got.w.cache
            IN  IF got.hit \/ got.exc # "None" THEN got
                ELSE IF Truthy(frame) /\ ~descr.has_frame
                THEN [got EXCEPT !.exc = "KeyError", !.time = EmptyArr, !.data = EmptyArr]
                ELSE [got EXCEPT !.time = ret.time, !.data = ret.data, !.w.cache = stored]
    IN  The({Processed(got) : got \in {CacheLookup(name, t, data_key, kwargs0, w)}})

\* Spacecraft.__init__ (lines 39-56) on the registry state `loaded`
SpacecraftInit(name, loaded) ==
    IF ~loaded
    THEN [exc |-> IF name \in DOMAIN Registry THEN "None" ELSE "KeyError", loaded |-> TRUE]
    ELSE [exc |-> IF name \in DOMAIN Registry THEN "None" ELSE "NotImplementedError",
          loaded |-> TRUE]

-----------------------------------------------------------------------------
(* Spec: one process that constructs spacecraft and asks for the data of one      *)
(* request, through get_data, get_data_raw and get_data_files, in any order        *)

MaxExtra == 1       \* calls with extra_columns per behaviour

MissionNames == {"wind", "voyager"}

NoKwargs == [k \in {} |-> PyNone]

Requests ==
    [t : {p \in ReqTimes \X ReqTimes : p[1] <= p[2]},
     data_key : {"mag", "swe"},
     kwargs : {NoKwargs, [frame |-> PyStr("HEEQ")]}]

World == [disk |-> disk, cols |-> regCols, cache |-> Cache]

NoPair == [time |-> EmptyArr, data |-> EmptyArr]

NoCall ==
    [op |-> "none", name |-> "", exc |-> "None", cached |-> FALSE, repeat |-> FALSE,
     raw |-> FALSE, built |-> <<>>, downloaded |-> <<>>, touched |-> FALSE, ret |-> NoPair]

Init ==
    /\ spice = "None" /\ sc = Idle /\ kernels = {} /\ regCols = NoFiles
    /\ disk = {} /\ cacheDir = FALSE /\ fs = NoFiles
    /\ shadow = [done |-> FALSE, ret |-> NoPair]
    /\ req \in Requests
    /\ last = NoCall
    /\ inp = Idle /\ out = NoOut

NewSpacecraft(name) ==
    LET r == SpacecraftInit(name, spice = "loaded")
    IN  /\ spice' = "loaded"
        /\ regCols' = IF spice = "loaded" THEN regCols ELSE LoadedColumns
        /\ sc' = IF r.exc = "None" THEN name ELSE sc
        /\ kernels' = IF r.exc = "None" THEN kernels \cup {Registry[name].kernel_group}
                      ELSE kernels
        /\ last' = [NoCall EXCEPT !.op = "init", !.name = name, !.exc = r.exc,
                                  !.repeat = spice = "loaded"]
        /\ UNCHANGED <<inp, out, disk, cacheDir, fs, shadow, req>>

GetData(options) ==
    /\ sc # Idle
    /\ Len(regCols[req.data_key]) + Len(ExtraColumns(options))
          <= Len(LoadedColumns[req.data_key]) + MaxExtra
    /\ LET kwargs == Update(req.kwargs, options)
           cached == CacheRequested(kwargs)
       IN  \E r \in {get_data(sc, req.t, req.data_key, kwargs, World)} :
           /\ disk' = r.w.disk
           /\ regCols' = r.w.cols
           /\ cacheDir' = r.w.cache.dir
           /\ fs' = r.w.cache.files
           /\ last' = [op |-> "get_data", name |-> sc, exc |-> r.exc, cached |-> cached,
                       repeat |-> cached /\ shadow.done, raw |-> r.raw, built |-> r.built,
                       downloaded |-> r.downloaded, touched |-> r.w.disk # disk,
                       ret |-> [time |-> r.time, data |-> r.data]]
           /\ shadow' = IF cached /\ r.exc = "None" /\ ~shadow.done
                        THEN [done |-> TRUE, ret |-> [time |-> r.time, data |-> r.data]]
                        ELSE shadow
    /\ UNCHANGED <<inp, out, spice, sc, kernels, req>>

GetDataRaw(options) ==
    /\ sc # Idle
    /\ Len(regCols[req.data_key]) + Len(ExtraColumns(options))
          <= Len(LoadedColumns[req.data_key]) + MaxExtra
    /\ \E r \in {get_data_raw(sc, req.t[1], req.t[2], req.data_key, options, World)} :
           /\ disk' = r.w.disk
           /\ regCols' = r.w.cols
           /\ last' = [NoCall EXCEPT !.op = "get_data_raw", !.name = sc, !.exc = r.exc,
                                     !.raw = TRUE, !.built = r.built,
                                     !.downloaded = r.downloaded,
                                     !.touched = r.w.disk # disk,
                                     !.ret = [time |-> r.time, data |-> r.data]]
    /\ UNCHANGED <<inp, out, spice, sc, kernels, cacheDir, fs, shadow, req>>

GetDataFiles ==
    /\ sc # Idle
    /\ \E r \in {get_data_files(sc, req.t[1], req.t[2], req.data_key, World)} :
           /\ disk' = r.w.disk
           /\ last' = [NoCall EXCEPT !.op = "get_data_files", !.name = sc, !.exc = r.exc,
                                     !.built = r.built, !.downloaded = r.downloaded,
                                     !.touched = r.w.disk # disk]
    /\ UNCHANGED <<inp, out, spice, sc, kernels, regCols, cacheDir, fs, shadow, req>>

Next ==
    \/ \E name \in MissionNames : NewSpacecraft(name)
    \/ \E options \in {NoKwargs, [cache |-> PyBool(TRUE)],
                       [extra_columns |-> PyList(<<"BZ">>)]} : GetData(options)
    \/ \E options \in {NoKwargs, [extra_columns |-> PyList(<<"BZ">>)],
                       [cache_raw |-> PyBool(FALSE)]} : GetDataRaw(options)
    \/ GetDataFiles

Spec == Init /\ [][Next]_vars

-----------------------------------------------------------------------------
(* Properties of Spec *)

\* the request of the behaviour as get_data receives it with cache=True
CachedKwargs == Update(req.kwargs, [cache |-> PyBool(TRUE)])

RequestKey == CacheKey("wind", req.t, req.data_key, CachedKwargs)

\* C2: once a get_data call with cache=True has returned, exactly one cache entry
\* exists and it holds the pair that call returned; every later call with the same
\* arguments and cache=True returns that pair without calling get_data_raw, builds
\* and downloads no URL and leaves the data files alone; a call with cache=True
\* that is not preceded by such a call does call get_data_raw
C2_SecondCallServedFromCache ==
    /\ shadow.done =>
          /\ Cardinality(DOMAIN fs) = 1
          /\ cache_entry_exists(RequestKey, Cache)
          /\ get_cache_entry(RequestKey, Cache).ret = shadow.ret
    /\ (last.op = "get_data" /\ last.repeat) =>
          /\ ~last.raw
          /\ last.exc = "None"
          /\ last.ret = shadow.ret
          /\ last.built = <<>> /\ last.downloaded = <<>> /\ ~last.touched
    /\ (last.op = "get_data" /\ last.cached /\ ~last.repeat) => last.raw

\* a second call with cache=True has returned a series that is not empty
C2_Witness ==
    /\ last.op = "get_data" /\ last.repeat /\ last.exc = "None"
    /\ Size(last.ret.time) > 0
    /\ Cardinality(DOMAIN fs) = 1

\* C4: the construction of a Spacecraft whose name is not in the registry fails
\* with NotImplementedError, the first construction of the process included
C4_UnknownMissionNotImplemented ==
    (last.op = "init" /\ last.name \notin DOMAIN Registry) => last.exc = "NotImplementedError"

\* the range of the request leaves the mission of the spacecraft
OutsideMission ==
    req.t[1] < Registry[last.name].mission_start \/ req.t[2] > Registry[last.name].mission_end

\* C5: get_data_files, get_data_raw and get_data fail with ValueError when the
\* range starts before mission_start or ends after mission_end, with no URL built
\* or downloaded and no local file created, extracted or removed
C5_InvalidRangeFailsFirst ==
    (last.op \in {"get_data_files", "get_data_raw", "get_data"} /\ OutsideMission) =>
        /\ last.exc = "ValueError"
        /\ last.built = <<>> /\ last.downloaded = <<>> /\ ~last.touched

\* an uncached get_data has failed on a range that starts inside the mission and
\* ends after it
C5_Witness ==
    /\ last.op = "get_data" /\ ~last.cached /\ last.exc = "ValueError"
    /\ req.t[1] >= Registry[last.name].mission_start
    /\ req.t[2] > Registry[last.name].mission_end

\* C11: once the registry is loaded, every column selector list in it stays as
\* loaded, whatever get_data and get_data_raw calls follow, calls with
\* extra_columns included
C11_RegistryColumnsAsLoaded ==
    spice = "loaded" => regCols = LoadedColumns

====
